---- MODULE Spec2Model ----
(***************************************************************************)
(* Model of butter-lad (src/main.rs): the current-widget hand-off          *)
(* pipeline (detect_widget_sensors -> update_current_widget), the tilt     *)
(* controller and the camera follow.                                       *)
(*                                                                         *)
(* One frame of the Update schedule is modelled as: BeginFrame (the engine *)
(* samples input, steps physics and the entity table), then the systems    *)
(* tilt_controls, detect_widget_sensors and update_current_widget in any   *)
(* order that respects the .chain() of main, then apply_deferred, where    *)
(* the queued Commands are applied to the world.                           *)
(*                                                                         *)
(* The camera follow touches state disjoint from the pipeline and is       *)
(* modelled by its own specification, SpecCam.                             *)
(***************************************************************************)
EXTENDS Integers, Sequences, FiniteSets, TLC

\* ------------------------------------------------------------------ bounds
\* Player entities that may exist at once (setup spawns one).
MaxPlayers == 2
\* Longest batch of events handed to update_current_widget in SpecBatch.
MaxBatch == 2
\* Largest camera-target coordinate followed, in tenths of a world unit.
MaxCoord == 200

\* ---------------------------------------------------------------- entities
\* The two platforms spawned by setup, and the sensor child of each.
Widgets == {"W1", "W2"}
Sensors == {"S1", "S2"}
Entities == Widgets \cup Sensors
PlayerIds == 1..MaxPlayers

\* WidgetSensor(parent.parent_entity()): the back-reference each sensor stores.
WidgetSensor == [s \in Sensors |-> IF s = "S1" THEN "W1" ELSE "W2"]

\* Option<Entity>::None of CurrentWidget.
None == "None"

\* The id returned by the first widget spawn of setup.
start_id == "W1"

\* NewWidgetEvent { old_widget, new_widget }
NewWidgetEvent == [old_widget : Entities, new_widget : Entities]

\* The systems of the Update schedule that the pipeline claims are about.
Systems == {"tilt", "detect", "update"}

\* clamped_axis_pair yields each axis in [-1, 1]; the extremes and the rest.
AxisValues == {-1, 0, 1}

\* let max_rot: f32 = 7.0;
max_rot == 7

VARIABLES
    current_widget,  \* CurrentWidget.0 : Option<Entity>
    outlined,        \* entities carrying the OutlineBundle
    rotation,        \* Transform.rotation of each Widget, as <<deg about forward, deg about right>>
    players,         \* entities carrying Player (and the ActionState input source)
    intersecting,    \* sensors for which intersection_pair(player, sensor) == Some(true)
    action,          \* ActionState: the clamped Tilt axis pair <<x, y>> of this frame
    events,          \* NewWidgetEvents not yet read by update_current_widget's EventReader
    commands,        \* Commands queued by update_current_widget, not yet applied
    ran,             \* what has run in the current frame
    emitted,         \* history: events sent by detect_widget_sensors in this frame
    consumed,        \* history: events read by update_current_widget in this frame
    cw0,             \* history: CurrentWidget at the start of this frame
    outlined0,       \* history: outlined at the start of this frame
    target,          \* PrimaryCamera.target, Vec3 in tenths of a unit
    translation,     \* the player's Transform.translation, Vec3 in tenths of a unit
    delta,           \* time.delta_seconds(), in hundredths of a second
    cam_ran          \* set_camera_target has run in the current frame

vars == <<current_widget, outlined, rotation, players, intersecting, action,
          events, commands, ran, emitted, consumed, cw0, outlined0,
          target, translation, delta, cam_ran>>

pipeVars == <<current_widget, outlined, rotation, players, intersecting, action,
              events, commands, ran, emitted, consumed, cw0, outlined0>>

camVars == <<target, translation, delta, cam_ran>>

\* ----------------------------------------------------------------- helpers
\* A query that takes the first match instead of requiring a single one.
GetSingle_first(q) == q # {}

\* Query::get_single: Ok only when exactly one entity matches.
GetSingle(q) == Cardinality(q) = 1

\* All enumeration orders of a set (a Query iterates in no guaranteed order).
Orders(S) == {o \in [1..Cardinality(S) -> S] : \A i, j \in 1..Cardinality(S) : o[i] = o[j] => i = j}

\* The loop body of detect_widget_sensors for one sensor of the query.
DetectOne(cw, sensor, inter) ==
    IF sensor \in inter /\ cw # None /\ cw # sensor
    THEN <<[old_widget |-> cw, new_widget |-> sensor]>>
    ELSE <<>>

\* The for loop of detect_widget_sensors over the query in the order given.
RECURSIVE DetectLoop(_, _, _)
DetectLoop(cw, order, inter) ==
    IF order = <<>> THEN <<>>
    ELSE DetectOne(cw, Head(order), inter) \o DetectLoop(cw, Tail(order), inter)

\* update_current_widget without the removal of the old highlight.
EventCommands_insertOnly(event) ==
    << [op |-> "insert", entity |-> event.new_widget] >>

\* The two commands update_current_widget queues for one event.
EventCommands(event) ==
    << [op |-> "remove", entity |-> event.old_widget],
       [op |-> "insert", entity |-> event.new_widget] >>

\* The commands queued by the for loop of update_current_widget.
RECURSIVE BatchCommands(_)
BatchCommands(evs) ==
    IF evs = <<>> THEN <<>>
    ELSE EventCommands(Head(evs)) \o BatchCommands(Tail(evs))

\* current_widget.0 = Some(event.new_widget), for each event in turn.
RECURSIVE BatchCurrent(_, _)
BatchCurrent(cw, evs) ==
    IF evs = <<>> THEN cw
    ELSE BatchCurrent(Head(evs).new_widget, Tail(evs))

\* One queued command applied to the world.
ApplyCommand(outl, c) ==
    IF c.op = "remove" THEN outl \ {c.entity} ELSE outl \cup {c.entity}

\* The command queue applied in order.
RECURSIVE ApplyCommands(_, _)
ApplyCommands(outl, cmds) ==
    IF cmds = <<>> THEN outl
    ELSE ApplyCommands(ApplyCommand(outl, Head(cmds)), Tail(cmds))

\* action.pressed(PlayerAction::Tilt): the dual axis is off its rest position.
Pressed(axis) == axis # <<0, 0>>

\* new_rotation: max_rot * z_rot degrees about forward, then max_rot * -x_rot
\* degrees about right, with z_rot = axis.x and x_rot = axis.y.
NewRotation(axis) == <<max_rot * axis[1], max_rot * (0 - axis[2])>>

\* Fixed-point quotient, rounded toward zero on either side.
Quot(n, m) == IF n >= 0 THEN n \div m ELSE 0 - ((0 - n) \div m)

\* The interpolation factor handed to lerp, time.delta_seconds() * 20.0, in
\* hundredths (delta is in hundredths of a second).
LerpFactor(d) == d * 20

\* Vec3::lerp(self, rhs, s) = self + (rhs - self) * s, one component.
LerpComponent(a, b, d) == a + Quot((b - a) * LerpFactor(d), 100)

Lerp(a, b, d) == [i \in 1..3 |-> LerpComponent(a[i], b[i], d)]

\* ------------------------------------------------------------------- state
\* The world after the Startup schedule (setup) has run and been applied.
Init ==
    /\ current_widget = start_id
    /\ outlined = {start_id}
    /\ rotation = [w \in Widgets |-> <<0, 0>>]
    /\ players = {1}
    /\ intersecting = {}
    /\ action = <<0, 0>>
    /\ events = <<>>
    /\ commands = <<>>
    /\ ran = Systems \cup {"apply"}
    /\ emitted = <<>>
    /\ consumed = <<>>
    /\ cw0 = start_id
    /\ outlined0 = {start_id}
    /\ target = <<0, 0, 0>>
    /\ translation = <<0, 50, 0>>
    /\ delta = 0
    /\ cam_ran = TRUE

\* ----------------------------------------------------------------- actions
\* The engine between two runs of Update: Player entities come and go (the
\* WorldInspectorPlugin added by main can despawn them; every system guards
\* against zero or several with get_single), the input manager samples the
\* gamepad, physics recomputes the intersections.
BeginFrame ==
    /\ ran = Systems \cup {"apply"}
    /\ players' \in SUBSET PlayerIds
    /\ intersecting' \in SUBSET Sensors
    /\ action' \in AxisValues \X AxisValues
    /\ ran' = {}
    /\ emitted' = <<>>
    /\ consumed' = <<>>
    /\ cw0' = current_widget
    /\ outlined0' = outlined
    /\ UNCHANGED <<current_widget, outlined, rotation, events, commands>>
    /\ UNCHANGED camVars

tilt_controls ==
    /\ "tilt" \notin ran
    /\ "apply" \notin ran
    /\ rotation' =
         IF GetSingle(players) /\ current_widget # None /\ Pressed(action)
         THEN [w \in Widgets |->
                 IF w = current_widget THEN NewRotation(action) ELSE rotation[w]]
         ELSE rotation
    /\ ran' = ran \cup {"tilt"}
    /\ UNCHANGED <<current_widget, outlined, players, intersecting, action,
                   events, commands, emitted, consumed, cw0, outlined0>>
    /\ UNCHANGED camVars

detect_widget_sensors ==
    /\ "detect" \notin ran
    /\ "apply" \notin ran
    /\ \E order \in Orders(Sensors) :
         LET sent == IF GetSingle(players)
                     THEN DetectLoop(current_widget, order, intersecting)
                     ELSE <<>>
         IN /\ events' = events \o sent
            /\ emitted' = emitted \o sent
    /\ ran' = ran \cup {"detect"}
    /\ UNCHANGED <<current_widget, outlined, rotation, players, intersecting,
                   action, commands, consumed, cw0, outlined0>>
    /\ UNCHANGED camVars

\* The two systems added without .chain(): no order between them.
ChainedAfterDetect_unordered == TRUE

\* (detect_widget_sensors, update_current_widget).chain()
ChainedAfterDetect == "detect" \in ran

update_current_widget ==
    /\ "update" \notin ran
    /\ "apply" \notin ran
    /\ ChainedAfterDetect
    /\ commands' = commands \o BatchCommands(events)
    /\ current_widget' = BatchCurrent(current_widget, events)
    /\ consumed' = consumed \o events
    /\ events' = <<>>
    /\ ran' = ran \cup {"update"}
    /\ UNCHANGED <<outlined, rotation, players, intersecting, action,
                   emitted, cw0, outlined0>>
    /\ UNCHANGED camVars

\* The end of the Update schedule: queued Commands reach the world.
apply_deferred ==
    /\ ran = Systems
    /\ outlined' = ApplyCommands(outlined, commands)
    /\ commands' = <<>>
    /\ ran' = ran \cup {"apply"}
    /\ UNCHANGED <<current_widget, rotation, players, intersecting, action,
                   events, emitted, consumed, cw0, outlined0>>
    /\ UNCHANGED camVars

Next ==
    \/ BeginFrame
    \/ tilt_controls
    \/ detect_widget_sensors
    \/ update_current_widget
    \/ apply_deferred

Spec == Init /\ [][Next]_vars

\* The engine runs every system of the schedule in every frame.
FairSpec == Spec /\ WF_vars(Next)

\* ---------------------------------------------------------- camera follow
\* Frame deltas the engine may report, in hundredths of a second.
Deltas == {0, 2, 5, 10, 15}

\* Where physics may have put the player: the spawn point of setup, on the
\* first widget, on the second widget.
Positions == {<<0, 50, 0>>, <<0, 0, 0>>, <<0, 0, 120>>}

Abs(n) == IF n >= 0 THEN n ELSE 0 - n

\* The engine between two runs of Update, as the camera follow sees it.
TimeStep ==
    /\ cam_ran
    /\ delta' \in Deltas
    /\ translation' \in Positions
    /\ cam_ran' = FALSE
    /\ UNCHANGED target
    /\ UNCHANGED pipeVars

set_camera_target ==
    /\ ~cam_ran
    /\ target' = IF GetSingle(players) THEN Lerp(target, translation, delta) ELSE target
    /\ \A i \in 1..3 : Abs(target'[i]) <= MaxCoord
    /\ cam_ran' = TRUE
    /\ UNCHANGED <<translation, delta>>
    /\ UNCHANGED pipeVars

NextCam ==
    \/ TimeStep
    \/ set_camera_target

SpecCam == Init /\ [][NextCam]_vars

\* ------------------------------------------- update_current_widget, alone
\* Events as the detector can send them: old and new differ.
TransitionEvents == {e \in NewWidgetEvent : e.old_widget # e.new_widget}

Batches == UNION {[1..n -> TransitionEvents] : n \in 0..MaxBatch}

\* update_current_widget about to run on any batch, from any CurrentWidget
\* and any set of highlighted entities.
InitBatch ==
    /\ current_widget \in Entities
    /\ outlined \in SUBSET Entities
    /\ events \in Batches
    /\ emitted = events
    /\ consumed = <<>>
    /\ commands = <<>>
    /\ ran = {"tilt", "detect"}
    /\ cw0 = current_widget
    /\ outlined0 = outlined
    /\ rotation = [w \in Widgets |-> <<0, 0>>]
    /\ players = {1}
    /\ intersecting = {}
    /\ action = <<0, 0>>
    /\ target = <<0, 0, 0>>
    /\ translation = <<0, 50, 0>>
    /\ delta = 0
    /\ cam_ran = TRUE

NextBatch ==
    \/ update_current_widget
    \/ apply_deferred

SpecBatch == InitBatch /\ [][NextBatch]_vars

\* ------------------------------------------------------------------ claims
\* The frame boundary: every system has run and the commands are applied.
FrameDone == ran = Systems \cup {"apply"}

\* The widget an entity stands for: itself, or the owner a sensor refers to.
WidgetOf(e) == IF e \in Sensors THEN WidgetSensor[e] ELSE e

\* C1: CurrentWidget is never none and always references a Widget entity.
C1_CurrentIsWidget == current_widget # None /\ current_widget \in Widgets

\* C2: the detector sends an event for a sensor only when the widget owning
\* that sensor differs from the widget recorded in CurrentWidget.
C2_EventOnlyWhenWidgetDiffers ==
    ("detect" \in ran /\ "update" \notin ran) =>
        \A i \in 1..Len(emitted) :
            WidgetOf(emitted[i].new_widget) # WidgetOf(current_widget)

\* C3: at most one entity carries the highlight marker.
C3_AtMostOneOutlined == Cardinality(outlined) <= 1

\* C4: from the loaded level, a step with the player on W2's sensor only
\* sends one event W1 -> W2, moves the highlight from W1 to the widget W2 and
\* leaves CurrentWidget referencing W2.
C4_HandOffToW2 ==
    (/\ FrameDone
     /\ cw0 = "W1" /\ outlined0 = {"W1"}
     /\ Cardinality(players) = 1
     /\ intersecting = {"S2"})
    => /\ Len(emitted) = 1
       /\ emitted[1].old_widget = "W1"
       /\ WidgetOf(emitted[1].new_widget) = "W2"
       /\ "W1" \notin outlined
       /\ "W2" \in outlined
       /\ current_widget = "W2"

\* C5: with one input source, a nonzero tilt and CurrentWidget set,
\* tilt_controls writes the target rotation to the active widget and leaves
\* every other widget's rotation as it was.
C5_TiltWritesActiveWidget ==
    [][(/\ "tilt" \notin ran /\ "tilt" \in ran'
        /\ Cardinality(players) = 1
        /\ action # <<0, 0>>
        /\ current_widget # None)
       => /\ rotation'[WidgetOf(current_widget)] = <<7 * action[1], 0 - (7 * action[2])>>
          /\ \A w \in Widgets \ {WidgetOf(current_widget)} : rotation'[w] = rotation[w]]_vars

\* C6: within a frame the detector completes before update_current_widget
\* reads; every event sent in a frame is read once, in order, in that frame;
\* CurrentWidget ends as the new_widget of the last event sent; nothing is
\* left for a later frame.
C6_SameFramePipeline ==
    /\ "update" \in ran => "detect" \in ran
    /\ "detect" \notin ran => (events = <<>> /\ emitted = <<>>)
    /\ "update" \notin ran => (consumed = <<>> /\ events = emitted)
    /\ "update" \in ran =>
          /\ events = <<>>
          /\ consumed = emitted
          /\ emitted # <<>> => current_widget = emitted[Len(emitted)].new_widget

\* A frame in which two events were sent and both were read.
C6_Witness ==
    /\ FrameDone
    /\ Len(emitted) = 2
    /\ consumed = emitted
    /\ current_widget = emitted[2].new_widget

\* C7 as stated: after (A -> B) then (B -> C), CurrentWidget is C, B is not
\* highlighted, C is, and A's highlight is as it was before the batch.
C7_Original ==
    FrameDone =>
        \A a, b, c \in Entities :
            (/\ a # b /\ b # c /\ a # c
             /\ emitted = << [old_widget |-> a, new_widget |-> b],
                             [old_widget |-> b, new_widget |-> c] >>)
            => /\ current_widget = c
               /\ b \notin outlined
               /\ c \in outlined
               /\ (a \in outlined) = (a \in outlined0)

\* C7 (amended): after (A -> B) then (B -> C), CurrentWidget is C, C is
\* highlighted and neither A nor B is; and the same event twice in a row
\* leaves the CurrentWidget and the highlighted set that one event leaves.
C7_Amended ==
    FrameDone =>
        /\ \A a, b, c \in Entities :
              (/\ a # b /\ b # c /\ a # c
               /\ emitted = << [old_widget |-> a, new_widget |-> b],
                               [old_widget |-> b, new_widget |-> c] >>)
              => /\ current_widget = c
                 /\ b \notin outlined
                 /\ c \in outlined
                 /\ a \notin outlined
        /\ \A e \in TransitionEvents :
              emitted = <<e, e>>
              => /\ current_widget = e.new_widget
                 /\ outlined = (outlined0 \ {e.old_widget}) \cup {e.new_widget}

\* A batch (A -> B), (B -> C) applied where A was highlighted before it.
C7_Witness ==
    /\ FrameDone
    /\ \E a, b, c \in Entities :
          /\ a # b /\ b # c /\ a # c
          /\ emitted = << [old_widget |-> a, new_widget |-> b],
                          [old_widget |-> b, new_widget |-> c] >>
          /\ a \in outlined0
          /\ a \notin outlined
          /\ current_widget = c

\* C8: for every frame delta, set_camera_target leaves the target between
\* the old target and the player, no farther from the player than before.
C8_TargetStaysOnSegment ==
    [][(~cam_ran /\ cam_ran' /\ Cardinality(players) = 1)
       => \A i \in 1..3 :
             /\ (target[i] <= translation[i] =>
                    (target[i] <= target'[i] /\ target'[i] <= translation[i]))
             /\ (target[i] >= translation[i] =>
                    (target[i] >= target'[i] /\ target'[i] >= translation[i]))
             /\ Abs(translation[i] - target'[i]) <= Abs(translation[i] - target[i])]_vars

\* C9: with no player entity, or more than one, the detector sends nothing
\* and the frame leaves CurrentWidget and the highlighted set as they were.
C9_NoSinglePlayerNoOp ==
    Cardinality(players) # 1 =>
        /\ emitted = <<>>
        /\ events = <<>>
        /\ commands = <<>>
        /\ current_widget = cw0
        /\ outlined = outlined0

\* A frame without a single player in which a sensor other than
\* CurrentWidget intersects, and nothing was sent.
C9_Witness ==
    /\ FrameDone
    /\ Cardinality(players) # 1
    /\ \E s \in intersecting : s # current_widget
    /\ emitted = <<>>
    /\ current_widget = cw0

\* C10: once the set of sensors overlapping the (one) player stays the same
\* and non-empty, the detector eventually sends no more events and
\* CurrentWidget eventually stops changing.
C10_HandOffSettles ==
    \A S \in (SUBSET Sensors) \ {{}} :
        <>[](intersecting = S /\ players = {1})
        => (<>[](emitted = <<>>) /\ <>[](current_widget = cw0))

====
